---- MODULE Spec2Model ----
(***************************************************************************)
(* Model of download_file_from_curl (book_download.py).                    *)
(*                                                                         *)
(* A Python str is a sequence of one-character strings.  The state is the  *)
(* function's locals (parts, i, url, headers), its position pc, the log    *)
(* sink, the working directory's files, and the exception (if any) that    *)
(* left the function.  The token list `parts` is what list(lexer) returns; *)
(* the network, the file system and the file manager are the environment   *)
(* and answer nondeterministically.                                        *)
(***************************************************************************)
EXTENDS Integers, Sequences, FiniteSets, TLC

VARIABLES parts, i, url, headers, pc, exc, log, fs, fs0, reveal

vars == <<parts, i, url, headers, pc, exc, log, fs, fs0, reveal>>

----------------------------------------------------------------------------
(* Bounds of the model. *)

\* longest command drawn token by token from the whole vocabulary
MaxTokens == 2

\* longest command drawn item by item (a URL, a -H pair, a stray token)
MaxItems == 3

----------------------------------------------------------------------------
(* Python str operations, on sequences of characters. *)

UpperCase == <<"A","B","C","D","E","F","G","H","I","J","K","L","M",
               "N","O","P","Q","R","S","T","U","V","W","X","Y","Z">>

LowerCase == <<"a","b","c","d","e","f","g","h","i","j","k","l","m",
               "n","o","p","q","r","s","t","u","v","w","x","y","z">>

LowerChar(c) ==
    IF \E k \in 1..Len(UpperCase) : UpperCase[k] = c
    THEN LowerCase[CHOOSE k \in 1..Len(UpperCase) : UpperCase[k] = c]
    ELSE c

\* str.lower()
Lower(s) == [k \in 1..Len(s) |-> LowerChar(s[k])]

\* str.startswith(p)
StartsWith(s, p) == Len(s) >= Len(p) /\ SubSeq(s, 1, Len(p)) = p

RECURSIVE LStrip(_)
LStrip(s) == IF s # <<>> /\ Head(s) = "'" THEN LStrip(Tail(s)) ELSE s

RECURSIVE RStrip(_)
RStrip(s) ==
    IF s # <<>> /\ s[Len(s)] = "'" THEN RStrip(SubSeq(s, 1, Len(s) - 1)) ELSE s

\* str.strip("'")
Strip(s) == RStrip(LStrip(s))

\* index of the first ": " in s, 0 when there is none
FindSep(s) ==
    LET hits == {k \in 1..(Len(s) - 1) : s[k] = ":" /\ s[k + 1] = " "}
    IN  IF hits = {} THEN 0 ELSE CHOOSE k \in hits : \A m \in hits : k <= m

\* str.split(": ", 1)
Split(s) ==
    LET k == FindSep(s)
    IN  IF k = 0 THEN <<s>>
        ELSE <<SubSeq(s, 1, k - 1), SubSeq(s, k + 2, Len(s))>>

----------------------------------------------------------------------------
(* The token scan, lines 80-95. *)

Http == <<"h","t","t","p">>

DashH == <<"-","H">>

ExclusionList ==
    { <<"r","a","n","g","e">>,
      <<"i","f","-","n","o","n","e","-","m","a","t","c","h">>,
      <<"i","f","-","m","o","d","i","f","i","e","d","-","s","i","n","c","e">> }

\* an exclusion test that compares the key as written
ExcludedCaseSensitive(key) == key \in ExclusionList

\* line 93: key.lower() in [...]
Excluded(key) == Lower(key) \in ExclusionList

\* headers[key] = value
SetItem(h, key, value) ==
    [k \in (DOMAIN h) \cup {key} |-> IF k = key THEN value ELSE h[k]]

\* a header insertion that keeps the first value of a key
AddHeaderFirstWins(h, hp) ==
    IF Len(hp) = 2 /\ ~Excluded(hp[1]) /\ hp[1] \notin DOMAIN h
    THEN SetItem(h, hp[1], hp[2])
    ELSE h

\* lines 91-94, hp being header_parts
AddHeader(h, hp) ==
    IF Len(hp) = 2 /\ ~Excluded(hp[1]) THEN SetItem(h, hp[1], hp[2]) ELSE h

\* a URL assignment that keeps the first URL token
AssignUrlFirstWins(u, part) == IF u = <<>> THEN <<Strip(part)>> ELSE u

\* line 87; url is <<>> for None and <<s>> for the str s
AssignUrl(u, part) == <<Strip(part)>>

\* a scan that stops at a header token it cannot split
ScanStepStopAtMalformed(p, st) ==
    LET part == p[st.i + 1]
    IN  IF StartsWith(part, Http)
        THEN [st EXCEPT !.url = AssignUrl(st.url, part), !.i = st.i + 1]
        ELSE IF part = DashH
        THEN IF st.i + 1 >= Len(p)
             THEN [st EXCEPT !.i = st.i + 1, !.exc = "IndexError"]
             ELSE IF Len(Split(Strip(p[st.i + 2]))) = 2
             THEN [st EXCEPT
                      !.headers = AddHeader(st.headers, Split(Strip(p[st.i + 2]))),
                      !.i = st.i + 2]
             ELSE [st EXCEPT !.i = Len(p)]
        ELSE [st EXCEPT !.i = st.i + 1]

\* one iteration of the while loop, lines 85-95; i counts from 0 as in the code
ScanStep(p, st) ==
    LET part == p[st.i + 1]
    IN  IF StartsWith(part, Http)
        THEN [st EXCEPT !.url = AssignUrl(st.url, part), !.i = st.i + 1]
        ELSE IF part = DashH
        THEN IF st.i + 1 >= Len(p)
             THEN [st EXCEPT !.i = st.i + 1, !.exc = "IndexError"]
             ELSE [st EXCEPT
                      !.headers = AddHeader(st.headers, Split(Strip(p[st.i + 2]))),
                      !.i = st.i + 2]
        ELSE [st EXCEPT !.i = st.i + 1]

\* the locals on entry to the loop, lines 80-83
ScanStart == [i |-> 0, url |-> <<>>, headers |-> <<>>, exc |-> "none"]

\* the whole loop, lines 84-95, run from the locals st
RECURSIVE ScanFrom(_, _)
ScanFrom(p, st) ==
    IF st.exc # "none" \/ st.i >= Len(p) THEN st ELSE ScanFrom(p, ScanStep(p, st))

----------------------------------------------------------------------------
(* urllib, os.path: the parts of them the function uses. *)

SchemeChars ==
    {UpperCase[k] : k \in 1..Len(UpperCase)} \cup
    {LowerCase[k] : k \in 1..Len(LowerCase)} \cup {"+", "-", "."}

\* index of the first character of s that is in cs, Len(s) + 1 when there is none
FirstOf(s, cs) ==
    LET hits == {k \in 1..Len(s) : s[k] \in cs}
    IN  IF hits = {} THEN Len(s) + 1 ELSE CHOOSE k \in hits : \A m \in hits : k <= m

\* urllib.request.Request(url): raises ValueError("unknown url type") unless the
\* string starts with a scheme, one or more characters other than / and : before a :
RequestAccepts(u) ==
    LET k == FirstOf(u, {":", "/"})
    IN  k > 1 /\ k <= Len(u) /\ u[k] = ":"

\* urllib.parse.urlparse(url).path
UrlPath(u) ==
    LET c == FirstOf(u, {":"})
        hasScheme == c > 1 /\ c <= Len(u) /\ \A k \in 1..(c - 1) : u[k] \in SchemeChars
        rest == IF hasScheme THEN SubSeq(u, c + 1, Len(u)) ELSE u
        afterNetloc ==
            IF StartsWith(rest, <<"/", "/">>)
            THEN LET r == SubSeq(rest, 3, Len(rest))
                 IN  SubSeq(r, FirstOf(r, {"/", "?", "#"}), Len(r))
            ELSE rest
    IN  SubSeq(afterNetloc, 1, FirstOf(afterNetloc, {"?", "#"}) - 1)

\* the percent escapes the vocabulary uses: %2F, %2f and %20
Escapes == { <<"2","F">>, <<"2","f">>, <<"2","0">> }

Unescape(hx) == IF hx = <<"2","0">> THEN " " ELSE "/"

\* urllib.parse.unquote(s); an escape that is not two hex digits stays as it is
RECURSIVE Unquote(_)
Unquote(s) ==
    IF s = <<>> THEN <<>>
    ELSE IF Head(s) = "%" /\ Len(s) >= 3 /\ SubSeq(s, 2, 3) \in Escapes
    THEN <<Unescape(SubSeq(s, 2, 3))>> \o Unquote(SubSeq(s, 4, Len(s)))
    ELSE <<Head(s)>> \o Unquote(Tail(s))

\* os.path.basename(p): what follows the last /
Basename(p) ==
    LET slashes == {k \in 1..Len(p) : p[k] = "/"}
        last == IF slashes = {} THEN 0
                ELSE CHOOSE k \in slashes : \A m \in slashes : m <= k
    IN  SubSeq(p, last + 1, Len(p))

\* a filename taken from the path before it is percent-decoded
FileNameUndecoded(u) == Basename(UrlPath(u))

\* lines 117-118
FileName(u) == Basename(Unquote(UrlPath(u)))

\* the except clauses of lines 139-144, in order: the log line of the clause that
\* catches e, "propagate" when none does
Catch(e) ==
    CASE e = "URLError"   -> "download_error"
      [] e = "OSError"    -> "fs_error"
      [] e = "ValueError" -> "value_error"
      [] OTHER            -> "propagate"

\* an inner handler that lets the launch failure through
CatchRevealNothing(e) == "propagate"

\* the except clause of lines 137-138
CatchReveal(e) ==
    IF e \in {"SubprocessError", "OSError"} THEN "reveal_error" ELSE "propagate"

----------------------------------------------------------------------------
(* The environment. *)

\* urlopen(req): the response, or URLError (HTTPError included), another OSError
\* (RemoteDisconnected), ValueError (InvalidURL), HTTPException (BadStatusLine)
OpenOutcomes == {"ok", "URLError", "OSError", "ValueError", "HTTPException"}

\* open(filename, "wb")
FileOpenOutcomes == {"ok", "OSError"}

\* response.read(): the body, or OSError (reset, timeout), HTTPException (IncompleteRead)
ReadOutcomes == {"ok", "OSError", "HTTPException"}

\* f.write(body)
WriteOutcomes == {"ok", "OSError"}

\* subprocess.run([...], check=False): returns whatever the exit status, or OSError
RevealOutcomes == {"returned", "OSError"}

----------------------------------------------------------------------------
(* The commands the model runs. *)

UrlFile == <<"h","t","t","p",":","/","/","h","/","f">>

\* from "http://h/f'" in double quotes: the lexer keeps the inner quote
UrlQuoted == <<"h","t","t","p",":","/","/","h","/","f","'">>

UrlNoPath == <<"h","t","t","p",":","/","/","h">>

UrlDir == <<"h","t","t","p",":","/","/","h","/","d","%","2","F">>

UrlNoScheme == <<"h","t","t","p","x">>

HdrAB == <<"a",":"," ","b">>

HdrAC == <<"a",":"," ","c">>

\* from "'A: b'" in double quotes
HdrQuoted == <<"'","A",":"," ","b","'">>

HdrHttp == <<"h","t","t","p",":"," ","x">>

HdrRange == <<"R","a","n","g","e",":"," ","x">>

HdrIfNoneMatch == <<"I","f","-","N","o","n","e","-","M","a","t","c","h",":"," ","x">>

HdrIfModifiedSince ==
    <<"i","f","-","m","o","d","i","f","i","e","d","-","s","i","n","c","e",":"," ","x">>

Garbage == <<"g","a","r","b","a","g","e">>

Vocabulary ==
    { DashH, UrlFile, UrlQuoted, UrlNoPath, UrlDir, UrlNoScheme, HdrAB, HdrAC,
      HdrQuoted, HdrHttp, HdrRange, HdrIfNoneMatch, HdrIfModifiedSince, Garbage }

Items ==
    { <<UrlFile>>, <<UrlQuoted>>, <<UrlDir>>, <<DashH, HdrAB>>, <<DashH, HdrAC>>,
      <<DashH, HdrQuoted>>, <<DashH, HdrRange>>, <<DashH, HdrIfNoneMatch>>,
      <<DashH, Garbage>>, <<Garbage>> }

SeqsUpTo(S, n) == UNION {[1..m -> S] : m \in 0..n}

RECURSIVE Flatten(_)
Flatten(ss) == IF ss = <<>> THEN <<>> ELSE Head(ss) \o Flatten(Tail(ss))

Commands ==
    SeqsUpTo(Vocabulary, MaxTokens) \cup {Flatten(ss) : ss \in SeqsUpTo(Items, MaxItems)}

\* the files of the working directory before the call: f is there or not
Directories == { <<>>, SetItem(<<>>, <<"f">>, "old") }

----------------------------------------------------------------------------
(* download_file_from_curl *)

Init ==
    /\ parts \in Commands
    /\ fs0 \in Directories
    /\ fs = fs0
    /\ i = ScanStart.i
    /\ url = ScanStart.url
    /\ headers = ScanStart.headers
    /\ exc = ScanStart.exc
    /\ pc = "scan"
    /\ log = <<"parsing">>
    /\ reveal = "none"

Locals == [i |-> i, url |-> url, headers |-> headers, exc |-> exc]

\* lines 84-95: one iteration; parts[i] out of range at line 90 leaves the function
Scan ==
    /\ pc = "scan"
    /\ i < Len(parts)
    /\ LET st == ScanStep(parts, Locals)
       IN  /\ i' = st.i
           /\ url' = st.url
           /\ headers' = st.headers
           /\ exc' = st.exc
           /\ pc' = IF st.exc = "none" THEN "scan" ELSE "raised"
    /\ UNCHANGED <<parts, log, fs, fs0, reveal>>

\* lines 97-106: the loop is over
CheckUrl ==
    /\ pc = "scan"
    /\ i >= Len(parts)
    /\ IF url = <<>> \/ url = << <<>> >>
       THEN /\ log' = Append(log, "no_url")
            /\ pc' = "done"
       ELSE /\ log' = log \o <<"found_url",
                       IF DOMAIN headers # {} THEN "found_headers" ELSE "no_headers">>
            /\ pc' = "request"
    /\ UNCHANGED <<parts, i, url, headers, exc, fs, fs0, reveal>>

\* lines 109-110, outside the try
CreateRequest ==
    /\ pc = "request"
    /\ log' = Append(log, "creating_request")
    /\ IF RequestAccepts(url[1])
       THEN pc' = "open" /\ exc' = exc
       ELSE pc' = "raised" /\ exc' = "ValueError"
    /\ UNCHANGED <<parts, i, url, headers, fs, fs0, reveal>>

\* what an exception e raised inside the try (lines 112-138) leads to
Raise(e, lg) ==
    IF Catch(e) = "propagate"
    THEN log' = lg /\ pc' = "raised" /\ exc' = e
    ELSE log' = Append(lg, Catch(e)) /\ pc' = "done" /\ exc' = exc

\* lines 113-115
UrlOpen ==
    /\ pc = "open"
    /\ \E o \in OpenOutcomes :
          IF o = "ok"
          THEN log' = log \o <<"starting", "opened">> /\ pc' = "name" /\ exc' = exc
          ELSE Raise(o, Append(log, "starting"))
    /\ UNCHANGED <<parts, i, url, headers, fs, fs0, reveal>>

\* lines 117-124
DetermineFilename ==
    /\ pc = "name"
    /\ IF FileName(url[1]) = <<>>
       THEN log' = Append(log, "no_filename") /\ pc' = "done"
       ELSE log' = Append(log, "filename") /\ pc' = "save"
    /\ UNCHANGED <<parts, i, url, headers, exc, fs, fs0, reveal>>

\* lines 127-128: open(filename, "wb") creates the file or empties it
OpenFile ==
    /\ pc = "save"
    /\ \E o \in FileOpenOutcomes :
          IF o = "ok"
          THEN /\ fs' = SetItem(fs, FileName(url[1]), "empty")
               /\ log' = Append(log, "saving")
               /\ pc' = "write"
               /\ exc' = exc
          ELSE fs' = fs /\ Raise(o, Append(log, "saving"))
    /\ UNCHANGED <<parts, i, url, headers, fs0, reveal>>

\* lines 129-130: f.write(response.read()), the file being open
WriteBody ==
    /\ pc = "write"
    /\ \E r \in ReadOutcomes, w \in WriteOutcomes :
          IF r # "ok"
          THEN fs' = fs /\ Raise(r, log)
          ELSE IF w # "ok"
          THEN fs' = SetItem(fs, FileName(url[1]), "partial") /\ Raise(w, log)
          ELSE /\ fs' = SetItem(fs, FileName(url[1]), "body")
               /\ log' = Append(log, "success")
               /\ pc' = "reveal"
               /\ exc' = exc
    /\ UNCHANGED <<parts, i, url, headers, fs0, reveal>>

\* lines 133-138
Reveal ==
    /\ pc = "reveal"
    /\ \E o \in RevealOutcomes :
          /\ reveal' = o
          /\ IF o = "returned"
             THEN log' = Append(log, "opening_explorer") /\ pc' = "done" /\ exc' = exc
             ELSE IF CatchReveal(o) # "propagate"
             THEN /\ log' = log \o <<"opening_explorer", CatchReveal(o)>>
                  /\ pc' = "done"
                  /\ exc' = exc
             ELSE Raise(o, Append(log, "opening_explorer"))
    /\ UNCHANGED <<parts, i, url, headers, fs, fs0>>

Next ==
    \/ Scan
    \/ CheckUrl
    \/ CreateRequest
    \/ UrlOpen
    \/ DetermineFilename
    \/ OpenFile
    \/ WriteBody
    \/ Reveal

Spec == Init /\ [][Next]_vars

TypeOK ==
    /\ parts \in Commands
    /\ i \in 0..Len(parts)
    /\ pc \in {"scan", "request", "open", "name", "save", "write", "reveal",
               "done", "raised"}
    /\ exc \in {"none", "IndexError", "ValueError", "HTTPException"}
    /\ reveal \in {"none"} \cup RevealOutcomes

----------------------------------------------------------------------------
(* Vocabulary of the properties. *)

Final == {"done", "raised"}

Last(s) == s[Len(s)]

Count(s, x) == Cardinality({k \in 1..Len(s) : s[k] = x})

\* the positions of the tokens that begin with http
HttpTokens(p) == {j \in 1..Len(p) : StartsWith(p[j], Http)}

\* token j is consumed as the argument of a -H
RECURSIVE IsArg(_, _)
IsArg(p, j) == j > 1 /\ p[j - 1] = DashH /\ ~IsArg(p, j - 1)

\* the positions of the -H flags that have a following token
PairPositions(p) == {j \in 1..(Len(p) - 1) : p[j] = DashH /\ ~IsArg(p, j)}

\* the positions of the URL tokens: http tokens that are not the argument of a -H
UrlPositions(p) == {j \in HttpTokens(p) : ~IsArg(p, j)}

WellFormed(tok) == \E k \in 1..(Len(tok) - 1) : tok[k] = ":" /\ tok[k + 1] = " "

Min(S) == CHOOSE x \in S : \A y \in S : x <= y

Max(S) == CHOOSE x \in S : \A y \in S : y <= x

\* a token with its leading and trailing single quotes removed
Unquoted(tok) ==
    LET inner == {k \in 1..Len(tok) : tok[k] # "'"}
    IN  IF inner = {} THEN <<>> ELSE SubSeq(tok, Min(inner), Max(inner))

\* K and V of a well-formed token "K: V", quotes around the token apart
KeyOf(tok) ==
    LET t == Unquoted(tok)
    IN SubSeq(t, 1, Min({k \in 1..(Len(t) - 1) : t[k] = ":" /\ t[k + 1] = " "}) - 1)

ValueOf(tok) ==
    LET t == Unquoted(tok)
    IN SubSeq(t, Min({k \in 1..(Len(t) - 1) : t[k] = ":" /\ t[k + 1] = " "}) + 2, Len(t))

\* the same, the token taken as it stands
RawKeyOf(tok) ==
    SubSeq(tok, 1, Min({k \in 1..(Len(tok) - 1) : tok[k] = ":" /\ tok[k + 1] = " "}) - 1)

RawValueOf(tok) ==
    SubSeq(tok, Min({k \in 1..(Len(tok) - 1) : tok[k] = ":" /\ tok[k + 1] = " "}) + 2,
           Len(tok))

\* every -H is followed by a token that holds ": "
AllPairsWellFormed(p) ==
    \A j \in 1..Len(p) : p[j] = DashH => j < Len(p) /\ WellFormed(p[j + 1])

\* the header map the claims expect of a command whose pairs are all well formed
ExpectedHeaders(p, K(_), V(_)) ==
    LET pairs == {j \in 1..(Len(p) - 1) : p[j] = DashH}
        kept  == {j \in pairs : Lower(K(p[j + 1])) \notin ExclusionList}
    IN  [k \in {K(p[j + 1]) : j \in kept} |->
            V(p[Max({j \in kept : K(p[j + 1]) = k}) + 1])]

SameMap(f, g) == DOMAIN f = DOMAIN g /\ \A k \in DOMAIN f : f[k] = g[k]

\* the command without the two tokens at j and j + 1
WithoutPair(p, j) == SubSeq(p, 1, j - 1) \o SubSeq(p, j + 2, Len(p))

ScanFailed == exc = "IndexError"

\* the loop of lines 84-95 is over and line 97 is reached
ScanCompleted == pc # "scan" /\ ~ScanFailed

----------------------------------------------------------------------------
(* C1 *)

\* C1 as stated: when exactly one token begins with http and every -H is followed
\* by a well-formed "K: V" token, the scan ends with url equal to that token and
\* the header map holding exactly the non-excluded K with the V of its last
\* occurrence.
C1_UrlAndHeadersAsWritten ==
    (pc # "scan" /\ Cardinality(HttpTokens(parts)) = 1 /\ AllPairsWellFormed(parts))
        => /\ url = <<parts[CHOOSE j \in HttpTokens(parts) : TRUE]>>
           /\ SameMap(headers, ExpectedHeaders(parts, RawKeyOf, RawValueOf))

\* C1 amended: when exactly one token begins with http, that token is not the
\* argument of a -H, and every -H is followed by a well-formed token, the scan ends
\* with url equal to that token without its leading and trailing single quotes, and
\* the header map holds exactly the non-excluded keys, each with the value of its
\* last occurrence, keys and values read from the tokens without their leading and
\* trailing single quotes.
C1_UrlAndHeaders ==
    (/\ pc # "scan"
     /\ Cardinality(HttpTokens(parts)) = 1
     /\ UrlPositions(parts) = HttpTokens(parts)
     /\ AllPairsWellFormed(parts))
        => /\ ScanCompleted
           /\ url = <<Unquoted(parts[CHOOSE j \in HttpTokens(parts) : TRUE])>>
           /\ SameMap(headers, ExpectedHeaders(parts, KeyOf, ValueOf))

\* a scan that ended on one URL, a repeated key and nothing malformed
C1_Witness ==
    /\ pc = "request"
    /\ Cardinality(HttpTokens(parts)) = 1
    /\ UrlPositions(parts) = HttpTokens(parts)
    /\ AllPairsWellFormed(parts)
    /\ \E j, k \in PairPositions(parts) :
          /\ j < k
          /\ KeyOf(parts[j + 1]) = KeyOf(parts[k + 1])
          /\ ValueOf(parts[j + 1]) # ValueOf(parts[k + 1])

----------------------------------------------------------------------------
(* C2 *)

\* C2 as stated: when several tokens begin with http and none of them is the
\* argument of a -H, the URL the request is built from is the first of them.
C2_FirstUrlWins ==
    (/\ ScanCompleted
     /\ Cardinality(HttpTokens(parts)) >= 2
     /\ UrlPositions(parts) = HttpTokens(parts))
        => url = <<Unquoted(parts[Min(UrlPositions(parts))])>>

\* C2 amended: when several tokens begin with http and none of them is the
\* argument of a -H, the URL the request is built from is the last of them in
\* left-to-right order; earlier ones are overwritten.
C2_LastUrlWins ==
    (/\ ScanCompleted
     /\ Cardinality(HttpTokens(parts)) >= 2
     /\ UrlPositions(parts) = HttpTokens(parts))
        => url = <<Unquoted(parts[Max(UrlPositions(parts))])>>

\* a request is about to be opened for the second of two different URLs
C2_Witness ==
    /\ pc = "open"
    /\ Cardinality(HttpTokens(parts)) >= 2
    /\ UrlPositions(parts) = HttpTokens(parts)
    /\ Unquoted(parts[Min(UrlPositions(parts))]) # Unquoted(parts[Max(UrlPositions(parts))])

----------------------------------------------------------------------------
(* C3 *)

\* the pairs the scan has gone past
PairsScanned == {j \in PairPositions(parts) : j + 1 <= i}

\* C3: at every point of the scan and after it, no key of the header map is, lower
\* cased, range, if-none-match or if-modified-since, and every key of the map is the
\* key of a scanned -H token, in the case it was written in.
C3_NoExcludedKey ==
    \A k \in DOMAIN headers :
        /\ Lower(k) \notin ExclusionList
        /\ \E j \in PairsScanned : WellFormed(parts[j + 1]) /\ KeyOf(parts[j + 1]) = k

\* the scan went past an excluded header written with capitals and kept a key
\* written with a capital
C3_Witness ==
    /\ \E j \in PairsScanned :
          /\ WellFormed(parts[j + 1])
          /\ Lower(KeyOf(parts[j + 1])) \in ExclusionList
          /\ KeyOf(parts[j + 1]) \notin ExclusionList
    /\ \E k \in DOMAIN headers : Lower(k) # k

----------------------------------------------------------------------------
(* C4 *)

\* the -H flags whose following token does not hold ": "
MalformedPairs(p) == {j \in PairPositions(p) : ~WellFormed(p[j + 1])}

\* C4: once the scan is over, its outcome (url, header map, normal or failed end)
\* is the outcome of the scan of the command without the malformed pair, for every
\* malformed pair of the command.
C4_MalformedPairIsSkipped ==
    pc # "scan" =>
        \A j \in MalformedPairs(parts) :
            LET r == ScanFrom(WithoutPair(parts, j), ScanStart)
            IN  /\ r.url = url
                /\ SameMap(r.headers, headers)
                /\ (r.exc = "IndexError") <=> ScanFailed

\* a malformed pair was followed by a header that was kept and by the URL
C4_Witness ==
    /\ pc = "request"
    /\ \E j \in MalformedPairs(parts) :
          /\ \E k \in PairPositions(parts) :
                k > j /\ WellFormed(parts[k + 1]) /\ KeyOf(parts[k + 1]) \in DOMAIN headers
          /\ \E u \in UrlPositions(parts) : u > j

----------------------------------------------------------------------------
(* C5 *)

\* C5: when -H is the last token and has nothing to consume, the scan still ends
\* normally, and with the URL and the headers of the command without that -H.
C5_TrailingFlagIsDropped ==
    (/\ pc # "scan"
     /\ parts # <<>>
     /\ Last(parts) = DashH
     /\ ~IsArg(parts, Len(parts)))
        => LET r == ScanFrom(SubSeq(parts, 1, Len(parts) - 1), ScanStart)
           IN  /\ ~ScanFailed
               /\ url = r.url
               /\ SameMap(headers, r.headers)

----------------------------------------------------------------------------
(* C6 *)

\* C6: when no token begins with http, the call ends by returning, its log is the
\* parsing line followed by the URL-not-found error, no request was built, no
\* connection opened, no file written and no reveal attempted.
C6_NoUrlIsReported ==
    (pc \in Final /\ HttpTokens(parts) = {})
        => /\ pc = "done"
           /\ log = <<"parsing", "no_url">>
           /\ fs = fs0
           /\ reveal = "none"

----------------------------------------------------------------------------
(* C7 *)

\* the percent-decoded path of u is empty or ends in /
EmptyFinalSegment(u) ==
    LET p == Unquote(UrlPath(u))
    IN  p = <<>> \/ Last(p) = "/"

\* C7 as stated: when the decoded path of the URL has an empty final segment, the
\* call ends with the could-not-determine-filename error, no file created or
\* changed, no success line, no reveal.
C7_NoFilenameIsReported ==
    (pc \in Final /\ ScanCompleted /\ url # <<>> /\ EmptyFinalSegment(url[1]))
        => /\ Last(log) = "no_filename"
           /\ fs = fs0
           /\ Count(log, "success") = 0
           /\ reveal = "none"

\* C7 amended: when the decoded path of the URL has an empty final segment, no
\* file is created or changed, no success line is logged and the reveal is not
\* attempted; and if the connection was opened, the call returns with the
\* could-not-determine-filename error as its last log line.
C7_NoFilenameNoFile ==
    (ScanCompleted /\ url # <<>> /\ EmptyFinalSegment(url[1]))
        => /\ fs = fs0
           /\ Count(log, "success") = 0
           /\ reveal = "none"
           /\ pc \notin {"save", "write", "reveal"}
           /\ (pc \in Final /\ Count(log, "opened") = 1)
                 => (pc = "done" /\ Last(log) = "no_filename")

\* the call returned on the filename error for a path that ends in an escaped /
C7_Witness ==
    /\ pc = "done"
    /\ Last(log) = "no_filename"
    /\ url = <<UrlDir>>
    /\ fs0 # <<>>

----------------------------------------------------------------------------
(* C8 *)

ErrorLines == {"no_url", "no_filename", "download_error", "fs_error", "value_error"}

\* C8: when the file manager cannot be launched after the file was written, the
\* call returns normally, the file holds the body, the success line stays in the
\* log, and the log ends with the one advisory line of the failure.
C8_RevealFailureIsAdvisory ==
    reveal = "OSError"
        => /\ pc = "done"
           /\ exc = "none"
           /\ FileName(url[1]) \in DOMAIN fs
           /\ fs[FileName(url[1])] = "body"
           /\ Count(log, "success") = 1
           /\ Count(log, "reveal_error") = 1
           /\ SubSeq(log, Len(log) - 2, Len(log))
                 = <<"success", "opening_explorer", "reveal_error">>
           /\ \A k \in 1..Len(log) : log[k] \notin ErrorLines

\* the launch failed over a file that replaced an earlier one
C8_Witness ==
    /\ reveal = "OSError"
    /\ pc = "done"
    /\ fs0 # <<>>

----------------------------------------------------------------------------
(* C9 *)

\* C9: no failure of the request construction, the connection, the body read, the
\* file write or the reveal leaves the function as an exception.
C9_NoFetchErrorPropagates ==
    pc = "raised" => ScanFailed

----------------------------------------------------------------------------
(* C10 *)

\* C10: a call that ends without the success line leaves every file of the
\* directory as it was and creates none.
C10_FileChangesOnlyOnSuccess ==
    (pc \in Final /\ Count(log, "success") = 0) => fs = fs0

====
